---- MODULE Spec2Model ----
(***************************************************************************)
(* Model of shtring: Lexer (src/src/lexer.rs), Parser (src/src/parser.rs)  *)
(* and split (src/src/lib.rs).                                             *)
(*                                                                         *)
(* The input is a sequence of code points.  Every code point has a class   *)
(* (quote, escape character, whitespace, word character) and a UTF-8       *)
(* length; offsets handed out by CharIndices are byte offsets, and every   *)
(* `&self.input[a..b]` is a byte-range slice that panics when a or b is    *)
(* not a code-point boundary.                                              *)
(***************************************************************************)
EXTENDS Integers, Sequences, FiniteSets, TLC

\* ---------------------------------------------------------------- bounds
MaxLen == 4
MaxPulls == 6

\* ------------------------------------------------------------ code points
\* "a"  : U+0061, a one-byte word character
\* "e2" : U+00E9, a two-byte word character
\* "sp" : U+0020, a one-byte whitespace code point
\* "w3" : U+2003, a three-byte whitespace code point
\* "sq" : ' , "dq" : " , "bs" : \
Alphabet == {"a", "e2", "sp", "w3", "sq", "dq", "bs"}

Utf8Len(c) == CASE c = "e2" -> 2 [] c = "w3" -> 3 [] OTHER -> 1

IsWhitespace(c) == c \in {"sp", "w3"}

\* mutant: only the ASCII letter counts as a word character
is_word_character_Ascii(c) == c = "a"

is_word_character(c) == c # "sq" /\ c # "dq" /\ c # "bs" /\ ~IsWhitespace(c)

VARIABLES input, chars, items, tokens, split_result, panicked

vars == <<input, chars, items, tokens, split_result, panicked>>

\* ------------------------------------------------------------ byte layout
CharBytes(c) == [j \in 1..Utf8Len(c) |-> <<c, j>>]

RECURSIVE Utf8(_)
Utf8(s) == IF s = <<>> THEN <<>> ELSE CharBytes(Head(s)) \o Utf8(Tail(s))

Bytes == Utf8(input)

ByteLen == Len(Bytes)

\* byte offset of the i-th code point (1-based), as CharIndices reports it
ByteIdx(i) == Len(Utf8(SubSeq(input, 1, i - 1)))

IsCharBoundary(o) == o = 0 \/ o = ByteLen \/ (o > 0 /\ o < ByteLen /\ Bytes[o + 1][2] = 1)

\* &self.input[a..b]; ok = FALSE is the slice panic
StrSlice(a, b) ==
    IF a <= b /\ b <= ByteLen /\ IsCharBoundary(a) /\ IsCharBoundary(b)
    THEN [ok |-> TRUE, text |-> SubSeq(Bytes, a + 1, b)]
    ELSE [ok |-> FALSE, text |-> <<>>]

\* ----------------------------------------------------------------- Lexer
NoTok == [tag |-> "None", idx |-> 0, type |-> "", text |-> <<>>]
PanicTok == [tag |-> "Panic", idx |-> 0, type |-> "", text |-> <<>>]
ErrTok == [tag |-> "Err", idx |-> 0, type |-> "UnexpectedEndOfInput", text |-> <<>>]
OkTok(i, ty, tx) == [tag |-> "Ok", idx |-> i, type |-> ty, text |-> tx]

\* Display for Token: the text a token stands for
TokenText(t) ==
    CASE t.type = "SingleQuote" -> <<<<"sq", 1>>>>
      [] t.type = "DoubleQuote" -> <<<<"dq", 1>>>>
      [] OTHER -> t.text

TokenLen(t) == IF t.type \in {"SingleQuote", "DoubleQuote"} THEN 1 ELSE Len(t.text)

InClass(c, cls) == IF cls = "Whitespace" THEN IsWhitespace(c) ELSE is_word_character(c)

\* mutant: the loop never extends the run
PeekLoop_Stops(k, cls) == k

\* the peek loop: k code points are consumed; returns the number consumed
\* once the next code point is absent or not of the class
RECURSIVE PeekLoop(_, _)
PeekLoop(k, cls) ==
    IF k < Len(input) /\ InClass(input[k + 1], cls) THEN PeekLoop(k + 1, cls) ELSE k

\* mutant: the slice ends before the last code point of the run (idx..end)
RunToken_DropsLast(k, cls) ==
    LET last == PeekLoop(k + 1, cls)
        idx == ByteIdx(k + 1)
        end == ByteIdx(last)
        s == StrSlice(idx, end)
    IN  [tok |-> IF s.ok THEN OkTok(idx, cls, s.text) ELSE PanicTok, k |-> last]

\* a run token: starts at code point k+1, `end` is the byte index of the
\* last code point of the run, the slice is idx..end+1
RunToken(k, cls) ==
    LET last == PeekLoop(k + 1, cls)
        idx == ByteIdx(k + 1)
        end == ByteIdx(last)
        s == StrSlice(idx, end + 1)
    IN  [tok |-> IF s.ok THEN OkTok(idx, cls, s.text) ELSE PanicTok, k |-> last]

\* mutant: the escape takes the backslash only, the next code point is lexed on its own
EscapeToken_OnlyBackslash(k) ==
    IF k + 1 < Len(input)
    THEN LET idx == ByteIdx(k + 1)
             s == StrSlice(idx, idx + 1)
         IN  [tok |-> IF s.ok THEN OkTok(idx, "Escape", s.text) ELSE PanicTok, k |-> k + 1]
    ELSE [tok |-> ErrTok, k |-> k + 1]

EscapeToken(k) ==
    IF k + 1 < Len(input)
    THEN LET idx == ByteIdx(k + 1)
             cont == ByteIdx(k + 2)
             s == StrSlice(idx, cont + 1)
         IN  [tok |-> IF s.ok THEN OkTok(idx, "Escape", s.text) ELSE PanicTok, k |-> k + 2]
    ELSE [tok |-> ErrTok, k |-> k + 1]

\* self.chars.next() = None => None; CharIndices stays exhausted
Exhausted(k) == [tok |-> NoTok, k |-> k]

\* Lexer::next with k code points already taken from self.chars
LexerNext(k) ==
    IF k >= Len(input) THEN Exhausted(k)
    ELSE LET chr == input[k + 1]
             idx == ByteIdx(k + 1)
         IN  CASE chr = "sq" -> [tok |-> OkTok(idx, "SingleQuote", <<>>), k |-> k + 1]
               [] chr = "dq" -> [tok |-> OkTok(idx, "DoubleQuote", <<>>), k |-> k + 1]
               [] chr = "bs" -> EscapeToken(k)
               [] chr \notin {"sq", "dq", "bs"} /\ IsWhitespace(chr) -> RunToken(k, "Whitespace")
               [] chr \notin {"sq", "dq", "bs"} /\ ~IsWhitespace(chr) /\ is_word_character(chr) ->
                      RunToken(k, "Word")
               [] OTHER -> [tok |-> OkTok(idx, "UnknownCharacter", <<chr>>), k |-> k + 1]

\* ---------------------------------------------------------------- Parser
NoneItem == [tag |-> "None", err |-> "", off |-> 0, text |-> <<>>]
PanicItem == [tag |-> "Panic", err |-> "", off |-> 0, text |-> <<>>]
OkItem(o, tx) == [tag |-> "Ok", err |-> "", off |-> o, text |-> tx]
EoiItem == [tag |-> "Err", err |-> "UnexpectedEndOfInput", off |-> 0, text |-> <<>>]
TokItem(o, tx) == [tag |-> "Err", err |-> "UnexpectedToken", off |-> o, text |-> tx]

\* mutant: the slice starts at the start of the input (..cont)
UnquotedArgument_FromStart(idx, cont) ==
    LET s == StrSlice(0, cont)
    IN  IF s.ok THEN OkItem(0, s.text) ELSE PanicItem

\* mutant: the slice takes in the first byte of the terminating whitespace
UnquotedArgument_PastEnd(idx, cont) ==
    LET s == StrSlice(idx, IF cont < ByteLen THEN cont + 1 ELSE cont)
    IN  IF s.ok THEN OkItem(idx, s.text) ELSE PanicItem

\* Some(Ok(&self.input[(idx..cont)])) and Some(Ok(&self.input[(idx..)]))
UnquotedArgument(idx, cont) ==
    LET s == StrSlice(idx, cont)
    IN  IF s.ok THEN OkItem(idx, s.text) ELSE PanicItem

\* mutant: the error reports the start of the run instead of the quote
UnexpectedToken_AtRunStart(idx, t) ==
    LET s == StrSlice(idx, idx + TokenLen(t))
    IN  IF s.ok THEN TokItem(idx, s.text) ELSE PanicItem

\* mutant: the quote ends the run like whitespace does and the run is yielded
UnexpectedToken_YieldsRun(idx, t) == UnquotedArgument(idx, t.idx)

\* Some(Err(Error::UnexpectedToken(cont, &self.input[cont..cont + token.len()])))
UnexpectedToken(idx, t) ==
    LET s == StrSlice(t.idx, t.idx + TokenLen(t))
    IN  IF s.ok THEN TokItem(t.idx, s.text) ELSE PanicItem

\* Some(Ok(&self.input[idx + 1..cont]))
QuotedArgument(idx, cont) ==
    LET s == StrSlice(idx + 1, cont)
    IN  IF s.ok THEN OkItem(idx + 1, s.text) ELSE PanicItem

\* the inner loop of the Word | UnknownCharacter | Escape arm
RECURSIVE UnquotedLoop(_, _)
UnquotedLoop(idx, k) ==
    LET r == LexerNext(k)
        t == r.tok
    IN  CASE t.tag = "Panic" -> [item |-> PanicItem, k |-> r.k]
          [] t.tag = "Ok" /\ t.type = "Whitespace" ->
                 [item |-> UnquotedArgument(idx, t.idx), k |-> r.k]
          [] t.tag = "Ok" /\ t.type \in {"Word", "UnknownCharacter", "Escape"} ->
                 UnquotedLoop(idx, r.k)
          [] t.tag = "Ok" /\ t.type \in {"SingleQuote", "DoubleQuote"} ->
                 [item |-> UnexpectedToken(idx, t), k |-> r.k]
          [] t.tag = "Err" -> [item |-> EoiItem, k |-> r.k]
          [] t.tag = "None" ->
                 [item |-> UnquotedArgument(idx, ByteLen), k |-> r.k]

\* mutant: a token other than whitespace right after the closing quote is an
\* UnexpectedToken
RECURSIVE QuotedLoop_RequiresSeparator(_, _, _)
QuotedLoop_RequiresSeparator(idx, quote, k) ==
    LET r == LexerNext(k)
        t == r.tok
    IN  CASE t.tag = "Panic" -> [item |-> PanicItem, k |-> r.k]
          [] t.tag = "Ok" /\ t.type = quote ->
                 LET n == LexerNext(r.k)
                 IN  IF n.tok.tag = "Ok" /\ n.tok.type # "Whitespace"
                     THEN [item |-> TokItem(n.tok.idx, TokenText(n.tok)), k |-> n.k]
                     ELSE [item |-> QuotedArgument(idx, t.idx), k |-> r.k]
          [] t.tag = "Ok" /\ t.type # quote -> QuotedLoop_RequiresSeparator(idx, quote, r.k)
          [] t.tag \in {"Err", "None"} -> [item |-> EoiItem, k |-> r.k]

\* the inner loop of the SingleQuote | DoubleQuote arm
RECURSIVE QuotedLoop(_, _, _)
QuotedLoop(idx, quote, k) ==
    LET r == LexerNext(k)
        t == r.tok
    IN  CASE t.tag = "Panic" -> [item |-> PanicItem, k |-> r.k]
          [] t.tag = "Ok" /\ t.type = quote ->
                 [item |-> QuotedArgument(idx, t.idx), k |-> r.k]
          [] t.tag = "Ok" /\ t.type # quote -> QuotedLoop(idx, quote, r.k)
          [] t.tag \in {"Err", "None"} -> [item |-> EoiItem, k |-> r.k]

\* mutant: the Parser starts over once the Lexer is exhausted
NoMoreArguments_Rewinds(k) == [item |-> NoneItem, k |-> 0]

\* None => None
NoMoreArguments(k) == [item |-> NoneItem, k |-> k]

\* Parser::next with k code points already taken by the lexer
RECURSIVE ParserNext(_)
ParserNext(k) ==
    LET r == LexerNext(k)
        t == r.tok
    IN  CASE t.tag = "Panic" -> [item |-> PanicItem, k |-> r.k]
          [] t.tag = "Ok" /\ t.type = "Whitespace" -> ParserNext(r.k)
          [] t.tag = "Ok" /\ t.type \in {"Word", "UnknownCharacter", "Escape"} ->
                 UnquotedLoop(t.idx, r.k)
          [] t.tag = "Ok" /\ t.type \in {"SingleQuote", "DoubleQuote"} ->
                 QuotedLoop(t.idx, t.type, r.k)
          [] t.tag = "Err" -> [item |-> EoiItem, k |-> r.k]
          [] t.tag = "None" -> NoMoreArguments(r.k)

\* ----------------------------------------------------------------- split
\* mutant: an error item is skipped and collection goes on
RECURSIVE Collect_SkipsErrors(_, _)
Collect_SkipsErrors(k, acc) ==
    LET r == ParserNext(k)
    IN  CASE r.item.tag = "Panic" -> [tag |-> "Panic", list |-> <<>>, err |-> NoneItem]
          [] r.item.tag = "None" -> [tag |-> "Ok", list |-> acc, err |-> NoneItem]
          [] r.item.tag = "Err" -> Collect_SkipsErrors(r.k, acc)
          [] r.item.tag = "Ok" -> Collect_SkipsErrors(r.k, Append(acc, r.item))

\* Parser::new(input).collect::<Result<Vec<_>, _>>()
RECURSIVE Collect(_, _)
Collect(k, acc) ==
    LET r == ParserNext(k)
    IN  CASE r.item.tag = "Panic" -> [tag |-> "Panic", list |-> <<>>, err |-> NoneItem]
          [] r.item.tag = "None" -> [tag |-> "Ok", list |-> acc, err |-> NoneItem]
          [] r.item.tag = "Err" -> [tag |-> "Err", list |-> <<>>, err |-> r.item]
          [] r.item.tag = "Ok" -> Collect(r.k, Append(acc, r.item))

split == Collect(0, <<>>)

Unset == [tag |-> "Unset", list |-> <<>>, err |-> NoneItem]

\* ------------------------------------------------------------ the machine
\* longer inputs of the documentation, the tests and the properties below,
\* every letter written as a:  a b" c ,  "b \"c d" ,  "a""b"
LongInputs ==
    { <<"a", "sp", "a", "dq", "sp", "a">>,
      <<"dq", "a", "sp", "bs", "dq", "a", "sp", "a", "dq">>,
      <<"dq", "a", "dq", "dq", "a", "dq">> }

Inputs == UNION {[1..n -> Alphabet] : n \in 0..MaxLen} \cup LongInputs

Init ==
    /\ input \in Inputs
    /\ chars = 0
    /\ items = <<>>
    /\ tokens = <<>>
    /\ split_result = Unset
    /\ panicked = FALSE

\* one pull of the Parser (parser.next())
ParserPull ==
    /\ ~panicked
    /\ tokens = <<>>
    /\ Len(items) < MaxPulls
    /\ LET r == ParserNext(chars)
       IN  /\ items' = Append(items, [item |-> r.item, from |-> chars, to |-> r.k])
           /\ chars' = r.k
           /\ panicked' = (r.item.tag = "Panic")
    /\ UNCHANGED <<input, tokens, split_result>>

\* one call of split(input), on a Parser of its own
SplitCall ==
    /\ split_result = Unset
    /\ tokens = <<>>
    /\ split_result' = split
    /\ UNCHANGED <<input, chars, items, tokens, panicked>>

\* one pull of a bare Lexer (lexer.next()), as the lexer tests drive it
LexerPull ==
    /\ ~panicked
    /\ items = <<>>
    /\ split_result = Unset
    /\ Len(tokens) < MaxPulls
    /\ LET r == LexerNext(chars)
       IN  /\ tokens' = Append(tokens, [tok |-> r.tok, from |-> chars, to |-> r.k])
           /\ chars' = r.k
           /\ panicked' = (r.tok.tag = "Panic")
    /\ UNCHANGED <<input, items, split_result>>

Next == ParserPull \/ SplitCall

Spec == Init /\ [][Next]_vars

LexNext == LexerPull

LexSpec == Init /\ [][LexNext]_vars

\* ------------------------------------------------- reading the raw input
\* These operators read the code points of the input directly, without the
\* Lexer; the properties below compare the Parser's items with them.
Quotes == {"sq", "dq"}

N == Len(input)

\* code points consumed once the whitespace code points after k are skipped
RECURSIVE SkipWs(_)
SkipWs(k) == IF k < N /\ IsWhitespace(input[k + 1]) THEN SkipWs(k + 1) ELSE k

\* code points consumed once the unquoted run after k is scanned: word
\* characters, and a backslash together with the code point after it
RECURSIVE RunEnd(_)
RunEnd(k) ==
    IF k >= N THEN k
    ELSE IF input[k + 1] = "bs" THEN (IF k + 2 <= N THEN RunEnd(k + 2) ELSE k)
    ELSE IF input[k + 1] \in Quotes \/ IsWhitespace(input[k + 1]) THEN k
    ELSE RunEnd(k + 1)

\* index of the first code point after k that is a quote q and not the
\* second code point of an escape; 0 when there is none
RECURSIVE CloseAt(_, _)
CloseAt(k, q) ==
    IF k >= N THEN 0
    ELSE IF input[k + 1] = q THEN k + 1
    ELSE IF input[k + 1] = "bs" THEN (IF k + 2 <= N THEN CloseAt(k + 2, q) ELSE 0)
    ELSE CloseAt(k + 1, q)

\* the bytes of code points i..j
BytesOf(i, j) == SubSeq(Bytes, ByteIdx(i) + 1, ByteIdx(j + 1))

Pulls == 1..Len(items)

Tag(i) == items[i].item.tag

\* the pull that starts with k code points consumed meets, after optional
\* whitespace, a non-empty unquoted run directly followed by a quote
RunThenQuote(k) ==
    LET s == SkipWs(k)
        e == RunEnd(s)
    IN  e > s /\ e < N /\ input[e + 1] \in Quotes

SingleByte(i, j) == \A x \in i..j : Utf8Len(input[x]) = 1

FirstErr == CHOOSE i \in Pulls : Tag(i) = "Err" /\ \A j \in 1..(i - 1) : Tag(j) # "Err"

FirstNone == CHOOSE i \in Pulls : Tag(i) = "None" /\ \A j \in 1..(i - 1) : Tag(j) # "None"

HasErr == \E i \in Pulls : Tag(i) = "Err"

\* C2: split returns Ok(all items of the Parser sequence, in order) when the
\* sequence has no error, and Err(the first error item of the sequence), with
\* no argument, otherwise; it panics where the sequence panics before any
\* error.
C2_SplitIsFirstErrorOrAll ==
    split_result # Unset =>
        /\ HasErr =>
               /\ split_result.tag = "Err"
               /\ split_result.err = items[FirstErr].item
               /\ split_result.list = <<>>
        /\ (~HasErr /\ \E i \in Pulls : Tag(i) = "None") =>
               /\ split_result.tag = "Ok"
               /\ split_result.list = [i \in 1..(FirstNone - 1) |-> items[i].item]
        /\ (~HasErr /\ panicked) => split_result.tag = "Panic"

C2_Witness ==
    /\ split_result.tag = "Err"
    /\ HasErr
    /\ FirstErr > 1
    /\ Tag(Len(items)) = "None"
    /\ split_result.err = items[FirstErr].item

\* ------------------------------------------------------------------- C3
Done == panicked \/ (items # <<>> /\ Tag(Len(items)) = "None")

AllSingleByte == SingleByte(1, N)

\* the words of code points k+1..N, when these are only word characters and
\* whitespace: maximal runs of word characters, as <<first, last>>
PlainSuffix(k) == \A x \in (k + 1)..N : is_word_character(input[x]) \/ IsWhitespace(input[x])

WordsAfter(k) ==
    {w \in ((k + 1)..N) \X ((k + 1)..N) :
        /\ w[1] <= w[2]
        /\ \A x \in w[1]..w[2] : is_word_character(input[x])
        /\ (w[1] = k + 1 \/ IsWhitespace(input[w[1] - 1]))
        /\ (w[2] = N \/ IsWhitespace(input[w[2] + 1]))}

\* C3: after a pull that returns an error the Parser goes on: the pull has
\* consumed exactly up to the token that raised the error, every well-formed
\* argument after that point is yielded by a later pull, and None is
\* returned only when the whole input is consumed.
C3_RecoversAfterError ==
    /\ \A i \in Pulls :
           Tag(i) = "Err" =>
               /\ items[i].item.err = "UnexpectedToken" =>
                      /\ input[items[i].to] \in Quotes
                      /\ ByteIdx(items[i].to) = items[i].item.off
               /\ items[i].item.err = "UnexpectedEndOfInput" => items[i].to = N
               /\ (Done /\ PlainSuffix(items[i].to)) =>
                      \A w \in WordsAfter(items[i].to) :
                          \E j \in (i + 1)..Len(items) :
                              items[j].item = OkItem(ByteIdx(w[1]), BytesOf(w[1], w[2]))
    /\ \A i \in Pulls : Tag(i) = "None" => items[i].to = N

\* C3 on inputs of one-byte code points only
C3_OnSingleByteInput == AllSingleByte => C3_RecoversAfterError

\* ------------------------------------------------------------------- C4
\* the pull that starts with k code points consumed meets, after optional
\* whitespace, an opening quote
OpensQuote(k) == SkipWs(k) < N /\ input[SkipWs(k) + 1] \in Quotes

CloseOf(k) == CloseAt(SkipWs(k) + 1, input[SkipWs(k) + 1])

\* C4: a quote opened at top level and followed by a quote token of the same
\* type yields Ok(exactly the bytes strictly between the two quotes).
C4_QuotedContent ==
    \A i \in Pulls :
        (OpensQuote(items[i].from) /\ CloseOf(items[i].from) # 0) =>
            LET s == SkipWs(items[i].from)
                c == CloseOf(items[i].from)
            IN  /\ items[i].item = OkItem(ByteIdx(s + 1) + 1, BytesOf(s + 2, c - 1))
                /\ items[i].to = c

\* C4 on inputs of one-byte code points only
C4_OnSingleByteInput == AllSingleByte => C4_QuotedContent

\* ------------------------------------------------------------------- C5
\* C5: a quote opened at top level with no later quote token of the same
\* type yields exactly one UnexpectedEndOfInput, no content, and every later
\* pull returns None.
C5_UnterminatedQuote ==
    \A i \in Pulls :
        (OpensQuote(items[i].from) /\ CloseOf(items[i].from) = 0) =>
            /\ items[i].item = EoiItem
            /\ items[i].to = N
            /\ \A j \in (i + 1)..Len(items) : Tag(j) = "None"

\* C5 on inputs of one-byte code points only
C5_OnSingleByteInput == AllSingleByte => C5_UnterminatedQuote

\* ------------------------------------------------------------------- C6
\* the input is words of word characters separated by single spaces
WordsAndSingleSpaces ==
    /\ N >= 1
    /\ \A x \in 1..N : is_word_character(input[x]) \/ input[x] = "sp"
    /\ input[1] # "sp" /\ input[N] # "sp"
    /\ \A x \in 1..(N - 1) : ~(input[x] = "sp" /\ input[x + 1] = "sp")

\* the space-delimited words after k code points, in order
RECURSIVE WordsFrom(_)
WordsFrom(k) ==
    IF k >= N THEN <<>>
    ELSE IF input[k + 1] = "sp" THEN WordsFrom(k + 1)
    ELSE <<OkItem(ByteIdx(k + 1), BytesOf(k + 1, RunEnd(k)))>> \o WordsFrom(RunEnd(k))

\* C6: on words of word characters (of any byte length) separated by single
\* spaces the Parser yields exactly the words, in order, and split returns
\* them with no error.
C6_WordsSplit ==
    WordsAndSingleSpaces =>
        /\ Done =>
               /\ ~panicked
               /\ SubSeq([i \in Pulls |-> items[i].item], 1, FirstNone - 1) = WordsFrom(0)
        /\ split_result # Unset =>
               split_result = [tag |-> "Ok", list |-> WordsFrom(0), err |-> NoneItem]

\* C6 on inputs of one-byte code points only
C6_OnSingleByteInput == AllSingleByte => C6_WordsSplit

\* ------------------------------------------------------------------- C7
\* the pull that starts with k code points consumed meets, after optional
\* whitespace, a code point that is neither a quote nor whitespace
OpensUnquoted(k) == SkipWs(k) < N /\ input[SkipWs(k) + 1] \notin Quotes

\* the unquoted run that starts there is ended by whitespace or the end of input
RunTerminated(k) ==
    LET e == RunEnd(SkipWs(k))
    IN  e > SkipWs(k) /\ (e = N \/ IsWhitespace(input[e + 1]))

\* C7: an unquoted argument is the bytes from the start of its first
\* Word/Escape token to the start of the terminating whitespace, or to the
\* end of input; escapes are kept verbatim and never open quoting, so \"a is
\* the one argument \"a.
C7_UnquotedSlice ==
    /\ \A i \in Pulls :
           OpensUnquoted(items[i].from) =>
               LET s == SkipWs(items[i].from)
                   e == RunEnd(s)
               IN  /\ Tag(i) = "Ok" =>
                          /\ RunTerminated(items[i].from)
                          /\ items[i].item = OkItem(ByteIdx(s + 1), BytesOf(s + 1, e))
                          /\ items[i].to = SkipWs(e)
                   /\ RunTerminated(items[i].from) =>
                          /\ Tag(i) \in {"Ok", "Panic"}
                          /\ SingleByte(items[i].from + 1, SkipWs(e)) => Tag(i) = "Ok"
    /\ (input = <<"bs", "dq", "a">> /\ items # <<>>) =>
           items[1].item = OkItem(0, <<<<"bs", 1>>, <<"dq", 1>>, <<"a", 1>>>>)

C7_Witness ==
    \E i \in Pulls :
        /\ OpensUnquoted(items[i].from)
        /\ Tag(i) = "Ok"
        /\ \E x \in (SkipWs(items[i].from) + 1)..RunEnd(SkipWs(items[i].from)) : input[x] = "bs"
        /\ RunEnd(SkipWs(items[i].from)) < N

\* ------------------------------------------------------------------- C8
\* C8: after a pull has returned None every later pull returns None, and no
\* item returned before that repeats an earlier item.
C8_NoneIsFinal ==
    \A i \in Pulls : \A j \in (i + 1)..Len(items) :
        /\ Tag(i) = "None" => items[j].item = NoneItem
        /\ (Tag(i) \in {"Ok", "Err"} /\ Tag(j) \in {"Ok", "Err"}) =>
               /\ items[i].item # items[j].item
               /\ (Tag(i) = "Ok" /\ Tag(j) = "Ok") =>
                      items[i].item.off + Len(items[i].item.text) <= items[j].item.off
               /\ (Tag(i) = Tag(j) /\ Tag(i) = "Err") =>
                      /\ items[i].item.err = "UnexpectedToken"
                      /\ items[j].item.err = "UnexpectedToken" => items[i].item.off < items[j].item.off

C8_Witness ==
    /\ Len(items) >= 4
    /\ Tag(1) = "Ok"
    /\ Tag(2) \in {"Ok", "Err"}
    /\ Tag(Len(items) - 1) = "None"
    /\ Tag(Len(items)) = "None"

\* ------------------------------------------------------------------- C9
\* C9: every UnexpectedToken(off, text) has text = input[off .. off+len(text)],
\* text is the one quote character, off its byte offset; it is yielded only
\* for a quote directly after an unquoted run, and the pull consumes exactly
\* up to that quote.
C9_UnexpectedTokenPayload ==
    \A i \in Pulls :
        items[i].item.err = "UnexpectedToken" =>
            LET it == items[i].item
                s == SkipWs(items[i].from)
                e == RunEnd(s)
            IN  /\ Len(it.text) = 1
                /\ it.off + Len(it.text) <= ByteLen
                /\ SubSeq(Bytes, it.off + 1, it.off + Len(it.text)) = it.text
                /\ it.text[1][1] \in Quotes
                /\ e > s /\ e < N
                /\ input[e + 1] = it.text[1][1]
                /\ it.off = ByteIdx(e + 1)
                /\ items[i].to = e + 1

C9_Witness ==
    \E i \in Pulls :
        /\ items[i].item.err = "UnexpectedToken"
        /\ items[i].item.off > 1
        /\ input[items[i].to - 1] = "dq"
        /\ input[items[i].to - 2] = "bs"

\* ------------------------------------------------------------------ C10
\* the pull that starts with k code points consumed meets, after optional
\* whitespace and an unquoted run (possibly empty), a backslash that is the
\* last code point of the input
EndsInLoneBackslash(k) ==
    /\ N >= 1
    /\ input[N] = "bs"
    /\ RunEnd(SkipWs(k)) = N - 1

\* C10: a lone backslash at the end of the input outside quotes makes the
\* pull return UnexpectedEndOfInput, nothing of the current argument is
\* yielded, and the next pull returns None.
C10_LoneBackslash ==
    \A i \in Pulls :
        EndsInLoneBackslash(items[i].from) =>
            /\ items[i].item = EoiItem
            /\ items[i].to = N
            /\ \A j \in Pulls : Tag(j) = "Ok" => items[j].item.off < ByteIdx(SkipWs(items[i].from) + 1)
            /\ i < Len(items) => Tag(i + 1) = "None"

\* C10 on inputs of one-byte code points only
C10_OnSingleByteInput == AllSingleByte => C10_LoneBackslash

\* ------------------------------------------------------------------ C11
LexPulls == 1..Len(tokens)

TTag(i) == tokens[i].tok.tag

\* the slices of the Ok tokens among the first n pulls, concatenated in order
RECURSIVE ConcatTokens(_)
ConcatTokens(n) ==
    IF n = 0 THEN <<>>
    ELSE ConcatTokens(n - 1) \o (IF TTag(n) = "Ok" THEN TokenText(tokens[n].tok) ELSE <<>>)

LexDone == tokens # <<>> /\ TTag(Len(tokens)) = "None"

\* the tokens do not overlap, their offsets increase strictly, and each
\* token's slice is the input bytes at its offset
TokensInPlace ==
    /\ \A i \in LexPulls :
           TTag(i) = "Ok" =>
               LET t == tokens[i].tok
               IN  /\ Len(TokenText(t)) = TokenLen(t)
                   /\ TokenLen(t) >= 1
                   /\ t.idx + TokenLen(t) <= ByteLen
                   /\ SubSeq(Bytes, t.idx + 1, t.idx + TokenLen(t)) = TokenText(t)
    /\ \A i \in LexPulls : \A j \in (i + 1)..Len(tokens) :
           (TTag(i) = "Ok" /\ TTag(j) = "Ok") =>
               /\ tokens[i].tok.idx < tokens[j].tok.idx
               /\ tokens[i].tok.idx + TokenLen(tokens[i].tok) <= tokens[j].tok.idx

\* C11 (as stated): for any input the tokens do not overlap, have strictly
\* increasing offsets, are the input bytes at their offsets, and their
\* slices concatenated in order are the whole input.
C11_TokensRebuildInput ==
    /\ TokensInPlace
    /\ LexDone => ConcatTokens(Len(tokens)) = Bytes

\* the code points the Ok tokens yielded so far account for
TokenizedUpTo ==
    IF \E i \in LexPulls : TTag(i) \in {"Err", "Panic"}
    THEN tokens[CHOOSE i \in LexPulls : TTag(i) \in {"Err", "Panic"}].from
    ELSE chars

\* C11 (amended): the tokens do not overlap, have strictly increasing
\* offsets, are the input bytes at their offsets, and concatenated in order
\* they are exactly the input consumed so far, hence the whole input once the
\* Lexer returns None; the one exception is a backslash that is the last
\* code point, which is reported as UnexpectedEndOfInput and is in no token.
C11_TokensRebuildConsumed ==
    /\ TokensInPlace
    /\ ConcatTokens(Len(tokens)) = SubSeq(Bytes, 1, ByteIdx(TokenizedUpTo + 1))
    /\ \A i \in LexPulls :
           TTag(i) = "Err" =>
               /\ tokens[i].from = N - 1
               /\ tokens[i].to = N
               /\ input[N] = "bs"
    /\ (LexDone /\ \A i \in LexPulls : TTag(i) # "Err") => ConcatTokens(Len(tokens)) = Bytes
    /\ (LexDone /\ \E i \in LexPulls : TTag(i) = "Err") =>
           ConcatTokens(Len(tokens)) = SubSeq(Bytes, 1, ByteLen - 1)

C11_Witness ==
    /\ LexDone
    /\ Len(tokens) >= 4
    /\ TTag(1) = "Ok" /\ TTag(2) = "Ok" /\ TTag(3) = "Ok"
    /\ \E i \in LexPulls : TTag(i) = "Ok" /\ TokenLen(tokens[i].tok) >= 2
    /\ ConcatTokens(Len(tokens)) = Bytes

\* ------------------------------------------------------------------ C12
\* C12: a backslash at offset i followed by any code point yields
\* (i, Escape(s)), s being the backslash and that code point, and the Lexer
\* goes on right after s; a backslash with nothing after it yields
\* UnexpectedEndOfInput.
C12_EscapeToken ==
    \A i \in LexPulls :
        (tokens[i].from < N /\ input[tokens[i].from + 1] = "bs") =>
            LET k == tokens[i].from
            IN  IF k + 2 <= N
                THEN /\ tokens[i].tok = OkTok(ByteIdx(k + 1), "Escape", BytesOf(k + 1, k + 2))
                     /\ tokens[i].to = k + 2
                ELSE /\ tokens[i].tok = ErrTok
                     /\ tokens[i].to = N

\* C12 on inputs of one-byte code points only
C12_OnSingleByteInput == AllSingleByte => C12_EscapeToken

\* ------------------------------------------------------------------ C13
\* C13: a quoted argument is closed only by a quote token of the opener's
\* type; a quote of that type that is the second code point of an escape
\* stays, with its backslash, in the slice, so "b \"c d" is the one
\* argument b \"c d.
C13_EscapedQuoteKept ==
    /\ \A i \in Pulls :
           (OpensQuote(items[i].from) /\ Tag(i) = "Ok") =>
               LET s == SkipWs(items[i].from)
                   c == CloseOf(items[i].from)
               IN  /\ c # 0
                   /\ items[i].to = c
                   /\ items[i].item = OkItem(ByteIdx(s + 1) + 1, BytesOf(s + 2, c - 1))
                   /\ \A x \in (s + 2)..(c - 1) :
                          input[x] = input[s + 1] => (x > s + 2 /\ input[x - 1] = "bs")
    /\ (input = <<"dq", "a", "sp", "bs", "dq", "a", "sp", "a", "dq">> /\ items # <<>>) =>
           /\ items[1].item = OkItem(1, BytesOf(2, 8))
           /\ items[1].to = 9

C13_Witness ==
    \E i \in Pulls :
        /\ OpensQuote(items[i].from)
        /\ Tag(i) = "Ok"
        /\ \E x \in (SkipWs(items[i].from) + 2)..(items[i].to - 1) :
               input[x] = input[SkipWs(items[i].from) + 1]

\* ------------------------------------------------------------------ C14
\* the whitespace code points that separate arguments around pull i: the
\* ones skipped before its argument and the ones that end its unquoted run
Separators(i) ==
    LET k == items[i].from
        s == SkipWs(k)
        e == RunEnd(s)
    IN  ((k + 1)..s) \cup (IF OpensUnquoted(k) /\ e > s THEN (e + 1)..SkipWs(e) ELSE {})

\* C14: the Ok slices are contiguous ranges of the input, pairwise disjoint
\* and in strictly increasing offset order, and no separating whitespace is
\* inside any of them.
C14_ArgumentsDisjoint ==
    /\ \A i \in Pulls :
           Tag(i) = "Ok" =>
               /\ items[i].item.off + Len(items[i].item.text) <= ByteLen
               /\ SubSeq(Bytes, items[i].item.off + 1, items[i].item.off + Len(items[i].item.text))
                      = items[i].item.text
    /\ \A i \in Pulls : \A j \in (i + 1)..Len(items) :
           (Tag(i) = "Ok" /\ Tag(j) = "Ok") =>
               /\ items[i].item.off < items[j].item.off
               /\ items[i].item.off + Len(items[i].item.text) <= items[j].item.off
    /\ \A i \in Pulls : \A j \in Pulls :
           Tag(j) = "Ok" =>
               \A x \in Separators(i) :
                   ~(/\ ByteIdx(x) < items[j].item.off + Len(items[j].item.text)
                     /\ items[j].item.off < ByteIdx(x + 1))

C14_Witness ==
    /\ Len(items) >= 3
    /\ Tag(1) = "Ok" /\ Len(items[1].item.text) >= 1
    /\ \E j \in 2..Len(items) :
           /\ Tag(j) = "Ok"
           /\ Len(items[j].item.text) >= 1
           /\ Separators(j) # {}

\* ------------------------------------------------------------------ C15
\* the results (tokens and errors) the Lexer yields from k code points on
RECURSIVE LexCount(_)
LexCount(k) ==
    IF LexerNext(k).tok.tag \in {"None", "Panic"} THEN 0 ELSE 1 + LexCount(LexerNext(k).k)

Yielded == {i \in Pulls : Tag(i) \in {"Ok", "Err"}}

\* C15: every pull of the Lexer and of the Parser returns, a pull that does
\* not return None consumes at least one code point, None is returned after
\* at most as many pulls as the input has code points, and the Parser yields
\* at most as many items as the Lexer yields results.
C15_PullsTerminate ==
    /\ items # <<>> =>
           \A k \in 0..N :
               LET r == LexerNext(k)
               IN  /\ r.tok.tag # "Panic"
                   /\ r.tok.tag # "None" => r.k > k
                   /\ r.tok.tag = "None" => k = N
    /\ \A i \in Pulls :
           /\ Tag(i) # "Panic"
           /\ Tag(i) # "None" => items[i].to > items[i].from
    /\ Len(items) > N => \E i \in Pulls : Tag(i) = "None"
    /\ Cardinality(Yielded) <= LexCount(0)

\* C15 on inputs of one-byte code points only
C15_OnSingleByteInput == AllSingleByte => C15_PullsTerminate

\* ------------------------------------------------------------------ C16
OnlyWhitespaceAfter(k) == \A x \in (k + 1)..N : IsWhitespace(input[x])

\* C16: top-level whitespace yields nothing: a pull with only whitespace
\* (or nothing) left returns None, and no argument or error starts at a
\* skipped whitespace code point or is empty because of it.
C16_WhitespaceYieldsNothing ==
    \A i \in Pulls :
        /\ OnlyWhitespaceAfter(items[i].from) => items[i].item = NoneItem
        /\ Tag(i) = "None" => OnlyWhitespaceAfter(items[i].from)
        /\ (Tag(i) = "Ok" /\ OpensUnquoted(items[i].from)) =>
               /\ Len(items[i].item.text) >= 1
               /\ items[i].item.off = ByteIdx(SkipWs(items[i].from) + 1)
        /\ (Tag(i) = "Ok" /\ OpensQuote(items[i].from)) =>
               items[i].item.off = ByteIdx(SkipWs(items[i].from) + 1) + 1

\* C16 on inputs of one-byte code points only
C16_OnSingleByteInput == AllSingleByte => C16_WhitespaceYieldsNothing

\* ------------------------------------------------------------------ C17
\* C17: a Word or Whitespace token spans a whole run: it is the bytes of the
\* code points it consumed, all of its class, the code point after it is not
\* of its class, and two consecutive tokens are never both Word or both
\* Whitespace.
C17_MaximalRuns ==
    /\ \A i \in LexPulls :
           (TTag(i) = "Ok" /\ tokens[i].tok.type \in {"Word", "Whitespace"}) =>
               LET a == tokens[i].from + 1
                   b == tokens[i].to
                   ws == tokens[i].tok.type = "Whitespace"
               IN  /\ a <= b
                   /\ \A x \in a..b : IsWhitespace(input[x]) = ws
                   /\ \A x \in a..b : input[x] \notin (Quotes \cup {"bs"})
                   /\ b < N => (IsWhitespace(input[b + 1]) # ws \/ input[b + 1] \in (Quotes \cup {"bs"}))
                   /\ tokens[i].tok.text = BytesOf(a, b)
    /\ \A i \in 1..(Len(tokens) - 1) :
           (TTag(i) = "Ok" /\ TTag(i + 1) = "Ok"
            /\ tokens[i].tok.type \in {"Word", "Whitespace"}) =>
               tokens[i].tok.type # tokens[i + 1].tok.type

C17_Witness ==
    /\ Len(tokens) >= 2
    /\ TTag(1) = "Ok" /\ tokens[1].tok.type = "Word" /\ tokens[1].to >= 2
    /\ TTag(2) = "Ok" /\ tokens[2].tok.type = "Whitespace" /\ tokens[2].to - tokens[2].from >= 2

\* ------------------------------------------------------------------ C18
\* C18: for every input, code points longer than one byte included, every
\* slice is taken on code-point boundaries, so no pull panics.
C18_NoSlicePanics == ~panicked /\ \A i \in Pulls : items[i].item # PanicItem

\* C18 on inputs of one-byte code points only
C18_OnSingleByteInput == AllSingleByte => C18_NoSlicePanics

\* ------------------------------------------------------------------ C19
TokenTypes == {tokens[i].tok.type : i \in {j \in LexPulls : TTag(j) = "Ok"}}

\* C19: the Lexer never yields UnknownCharacter: every token is a quote, an
\* escape, whitespace or a word.
C19_NoUnknownCharacter ==
    /\ "UnknownCharacter" \notin TokenTypes
    /\ TokenTypes \subseteq {"Word", "Whitespace", "SingleQuote", "DoubleQuote", "Escape"}
    /\ \A i \in LexPulls :
           (TTag(i) = "Ok" /\ is_word_character(input[tokens[i].from + 1])) =>
               tokens[i].tok.type = "Word"

C19_Witness ==
    /\ LexDone
    /\ {"Word", "Whitespace", "Escape"} \subseteq TokenTypes

\* ------------------------------------------------------------------ C20
\* C20: a closing quote ends its argument and the next pull starts right
\* after it: no UnexpectedToken is ever raised at the code point after a
\* closing quote, UnexpectedToken is raised only for a quote after an
\* unquoted run, and "a"b and "a""b" both yield Ok(a), Ok(b).
C20_NoSeparatorNeeded ==
    /\ \A i \in Pulls :
           (OpensQuote(items[i].from) /\ Tag(i) = "Ok") =>
               /\ \A j \in Pulls :
                      items[j].item.err = "UnexpectedToken" =>
                          items[j].item.off # ByteIdx(items[i].to + 1)
               /\ i < Len(items) =>
                      /\ items[i + 1].from = items[i].to
                      /\ (items[i].to < N /\ ~IsWhitespace(input[items[i].to + 1])) =>
                             Tag(i + 1) # "None"
    /\ \A j \in Pulls : items[j].item.err = "UnexpectedToken" => RunThenQuote(items[j].from)
    /\ (input = <<"dq", "a", "dq", "a">> /\ Len(items) >= 2) =>
           /\ items[1].item = OkItem(1, <<<<"a", 1>>>>)
           /\ items[2].item = OkItem(3, <<<<"a", 1>>>>)
    /\ (input = <<"dq", "a", "dq", "dq", "a", "dq">> /\ Len(items) >= 2) =>
           /\ items[1].item = OkItem(1, <<<<"a", 1>>>>)
           /\ items[2].item = OkItem(4, <<<<"a", 1>>>>)

C20_Witness ==
    /\ input = <<"dq", "a", "dq", "dq", "a", "dq">>
    /\ Len(items) = 3
    /\ Tag(1) = "Ok" /\ Tag(2) = "Ok" /\ Tag(3) = "None"

====
